---- MODULE Spec2Model ----
(***************************************************************************)
(* Rectangle Joy: the rectangle packer of src/rects.js.                    *)
(*                                                                         *)
(* Two specifications share the module:                                    *)
(*   Spec      one call of generateRectangles(width, height, targetCount,  *)
(*             minSize, maxSize), one step per iteration of its loop;      *)
(*   SpecPair  one call of isValidPlacement(candidate, others, GAP) on a   *)
(*             candidate and a one-element list of existing rectangles.    *)
(* Rectangles are records [x, y, w, h] of integers, as generateRectangles  *)
(* builds them from randInt results.                                       *)
(***************************************************************************)
EXTENDS Integers, Sequences, FiniteSets

VARIABLES
    width, height, targetCount, minSize, maxSize, \* arguments of generateRectangles
    rects,       \* const rects = []      (the placement set, in insertion order)
    attempts,    \* let attempts = 0
    draws,       \* number of randInt calls made so far by the call
    pc,          \* "loop": in the while loop, "done": returned rects
    candidate,   \* isValidPlacement's first argument
    others,      \* isValidPlacement's second argument
    valid,       \* isValidPlacement's result, once returned
    returned,    \* TRUE once isValidPlacement has returned
    rectsB,      \* rects of a second invocation of generateRectangles
    attemptsB,   \* attempts of the second invocation
    pcB,         \* "loop" / "done" of the second invocation
    canvasWidth, \* canvas.width, in device pixels
    canvasHeight,\* canvas.height, in device pixels
    dpr,         \* window.devicePixelRatio
    drawn,       \* TRUE once a candidate has been drawn for that canvas
    activeConfig,      \* the module variable activeConfig: count, minSize, maxSize
    activeSourceLabel, \* the module variable activeSourceLabel
    genCall,           \* the generateRectangles call made by the latest runWithConfig
    colorRect,      \* getEffectiveColor: the argument rect
    zones,          \* getEffectiveColor: the argument zones
    effectiveColor, \* getEffectiveColor: the returned colour
    colored,        \* TRUE once getEffectiveColor has returned
    apiKey,         \* window.OPENAI_API_KEY
    llmLoaded,      \* hasLLMSupport(): window.LLMRectangles is in place
    historyEnabled, \* the module variable historyEnabled
    promptInput,    \* promptInput.textContent
    promptText,     \* the local promptText of the latest handlePromptRun
    statusText,     \* statusEl.textContent
    pcPrompt,       \* position of handlePromptRun: "ready", "awaitLLM", "awaitSave", "returned"
    requested,      \* the latest handlePromptRun sent a request to the language model
    rendered,       \* the latest handlePromptRun called runWithConfig
    saved,          \* the latest handlePromptRun posted to the history API
    configBefore,   \* activeConfig when the latest handlePromptRun started
    saveCalls,      \* number of calls of historyClient.persistHistory so far
    result,         \* what processPrompt gave the latest handlePromptRun
    historyLimitEnv, \* server: process.env.HISTORY_LIMIT
    art_history,     \* server: the rows of table art_history
    dbClock,         \* server: the database's now()
    httpStatus,      \* server: status of the latest response, 0 before any request
    items,           \* server: the items of the latest GET /api/history response
    reqBody,         \* server: req.body of the latest POST /api/history
    errorBody,       \* server: the error message of the latest response, "" when none
    savedRender,  \* replay: the rectangles drawn by the run that was saved
    wire,         \* replay: the JSON text of the rectangles in the latest HTTP body
    storedRow,    \* replay: the rectangles column of the stored row
    entryRects,   \* replay: the rectangles of the entry in artHistory
    loadRender,   \* replay: the rectangles drawn by loadHistoryEntry
    loadGenCalls, \* replay: generateRectangles calls made by loadHistoryEntry
    pcReplay,     \* replay: "rendered", "posted", "saved", "inHistory", "loaded"
    artHistory,       \* client: the module variable artHistory
    historyLoadError, \* client: the module variable historyLoadError, "" for null
    historyFetch,     \* client: the GET of initializeHistory, its position and response
    promptRuns        \* client: the handlePromptRun calls so far, position and saved row of each

packVars == <<width, height, targetCount, minSize, maxSize, rects, attempts, draws, pc>>
pairVars == <<candidate, others, valid, returned>>
callBVars == <<rectsB, attemptsB, pcB>>
drawVars == <<canvasWidth, canvasHeight, dpr, drawn>>
geomVars == <<packVars, pairVars, callBVars, drawVars>>
cfgVars == <<activeConfig, activeSourceLabel, genCall>>
colorVars == <<colorRect, zones, effectiveColor, colored>>
promptVars == <<apiKey, llmLoaded, historyEnabled, promptInput, promptText, statusText,
                pcPrompt, requested, rendered, saved, configBefore, saveCalls, result>>
serverVars == <<historyLimitEnv, art_history, dbClock, httpStatus, items, reqBody, errorBody>>
replayVars == <<savedRender, wire, storedRow, entryRects, loadRender, loadGenCalls, pcReplay>>
clientVars == <<artHistory, historyLoadError, historyFetch, promptRuns>>
restVars == <<cfgVars, colorVars, promptVars, serverVars, replayVars, clientVars>>
exceptCfg == <<geomVars, colorVars, promptVars, serverVars, replayVars, clientVars>>
exceptColor == <<geomVars, cfgVars, promptVars, serverVars, replayVars, clientVars>>
exceptPrompt == <<geomVars, colorVars, serverVars, replayVars, clientVars>>
exceptServer == <<geomVars, cfgVars, colorVars, promptVars, replayVars, clientVars>>
exceptReplay == <<geomVars, cfgVars, colorVars, promptVars, serverVars, clientVars>>
exceptClient == <<geomVars, colorVars, replayVars>>
vars == <<width, height, targetCount, minSize, maxSize, rects, attempts, draws, pc,
          candidate, others, valid, returned, rectsB, attemptsB, pcB,
          canvasWidth, canvasHeight, dpr, drawn,
          activeConfig, activeSourceLabel, genCall,
          colorRect, zones, effectiveColor, colored,
          apiKey, llmLoaded, historyEnabled, promptInput, promptText, statusText,
          pcPrompt, requested, rendered, saved, configBefore, saveCalls, result,
          historyLimitEnv, art_history, dbClock, httpStatus, items, reqBody, errorBody,
          savedRender, wire, storedRow, entryRects, loadRender, loadGenCalls, pcReplay,
          artHistory, historyLoadError, historyFetch, promptRuns>>

---------------------------------------------------------------------------
(* Program constants *)

GAP == 2                       \* pixels between any two rectangle borders
MAX_ATTEMPTS_PER_RECT == 500   \* placement retries per rectangle

(* Bounds of the model *)

MaxWidth == 4     \* canvas widths 1..MaxWidth
MaxHeight == 3    \* canvas heights 1..MaxHeight
MaxSize == 2      \* minSize, maxSize in 1..MaxSize
MaxTarget == 2    \* targetCount in 0..MaxTarget
MaxRetries == 2   \* the model runs the loop with at most MaxRetries retries per rectangle
MaxCoord == 3     \* SpecPair: x, y in 0..MaxCoord
MaxDim == 5       \* SpecPair: w, h in 1..MaxDim
MaxCanvas == 6    \* SpecDraw: canvas.width, canvas.height in 1..MaxCanvas device pixels
MaxDpr == 2       \* SpecDraw: devicePixelRatio in 1..MaxDpr
MaxSpread == 1    \* SpecConfig: raw numbers lie within MaxSpread half units of a threshold
ZoneColumns == 1  \* SpecColor: rect and zone x in 0..ZoneColumns-1
MaxZones == 2     \* SpecColor: zone lists of length 0..MaxZones
MaxText == 2      \* SpecPrompt: the API key and the prompt have at most MaxText characters
MaxRows == 3      \* SpecServer: at most MaxRows rows are inserted
MaxClock == 2     \* SpecServer: now() in 0..MaxClock
MaxLimit == 2     \* SpecServer: HISTORY_LIMIT is unset or set to 0..MaxLimit
MaxList == 2      \* SpecReplay: the saved run drew at most MaxList rectangles
MaxSaves == 2     \* SpecPrompt, SpecPage: prompts are submitted until MaxSaves saves were issued
MaxRuns == 2      \* SpecClient: at most MaxRuns prompts are submitted
MaxOver == 1      \* SpecClient: the server's limit and store exceed the client's limit by MaxOver

---------------------------------------------------------------------------
(* Geometry helpers *)

Max(a, b) == IF a >= b THEN a ELSE b

Rect(x, y, w, h) == [x |-> x, y |-> y, w |-> w, h |-> h]

rectContains(outer, inner) ==
    /\ inner.x >= outer.x
    /\ inner.y >= outer.y
    /\ inner.x + inner.w <= outer.x + outer.w
    /\ inner.y + inner.h <= outer.y + outer.h

containsWithGap(outer, inner, gap) ==
    /\ inner.x - outer.x >= gap
    /\ inner.y - outer.y >= gap
    /\ outer.x + outer.w - (inner.x + inner.w) >= gap
    /\ outer.y + outer.h - (inner.y + inner.h) >= gap

\* an overlap test that lets nested rectangles through: areas overlap and
\* neither rectangle contains the other
rectsIntersectStrict_CrossingOnly(a, b) ==
    /\ ~ \/ a.x + a.w <= b.x
         \/ b.x + b.w <= a.x
         \/ a.y + a.h <= b.y
         \/ b.y + b.h <= a.y
    /\ ~rectContains(a, b)
    /\ ~rectContains(b, a)

rectsIntersectStrict(a, b) ==
    ~ \/ a.x + a.w <= b.x
      \/ b.x + b.w <= a.x
      \/ a.y + a.h <= b.y
      \/ b.y + b.h <= a.y

rectsTouchOrOverlap(a, b) ==
    ~ \/ a.x + a.w < b.x
      \/ b.x + b.w < a.x
      \/ a.y + a.h < b.y
      \/ b.y + b.h < a.y

\* dx without the width of the left rectangle: a.x - b.x, b.x - a.x
edgeDx_NoWidth(a, b) ==
    IF a.x > b.x + b.w THEN a.x - b.x
    ELSE IF b.x > a.x + a.w THEN b.x - a.x
    ELSE 0

\* dx that only looks for a to the right of b
edgeDx_OneSided(a, b) ==
    IF a.x > b.x + b.w THEN a.x - (b.x + b.w) ELSE 0

\* dx of minEdgeDistance: the separation along x, 0 when the projections overlap
edgeDx(a, b) ==
    IF a.x > b.x + b.w THEN a.x - (b.x + b.w)
    ELSE IF b.x > a.x + a.w THEN b.x - (a.x + a.w)
    ELSE 0

\* dy of minEdgeDistance
edgeDy(a, b) ==
    IF a.y > b.y + b.h THEN a.y - (b.y + b.h)
    ELSE IF b.y > a.y + a.h THEN b.y - (a.y + a.h)
    ELSE 0

\* Manhattan distance squared instead of the Euclidean one
minEdgeDistanceSq_Manhattan(a, b) ==
    (edgeDx(a, b) + edgeDy(a, b)) * (edgeDx(a, b) + edgeDy(a, b))

\* minEdgeDistance returns Math.hypot(dx, dy); the model keeps its square,
\* dx*dx + dy*dy, and compares it with gap*gap (dx, dy, gap are >= 0).
minEdgeDistanceSq(a, b) ==
    edgeDx(a, b) * edgeDx(a, b) + edgeDy(a, b) * edgeDy(a, b)

---------------------------------------------------------------------------
(* isValidPlacement *)

\* the loop body with the touch test but without the dist < gap test
placementStep_TouchOnly(cand, r, gap) ==
    IF rectsIntersectStrict(cand, r) THEN FALSE
    ELSE LET touchOrOverlap == rectsTouchOrOverlap(cand, r)
             candInR == rectContains(r, cand)
             rInCand == rectContains(cand, r)
         IN IF candInR \/ rInCand
            THEN IF candInR THEN containsWithGap(r, cand, gap)
                            ELSE containsWithGap(cand, r, gap)
            ELSE ~(touchOrOverlap /\ minEdgeDistanceSq(cand, r) = 0)

\* The body of the for loop for one existing rectangle r: TRUE when the loop
\* goes on to the next rectangle, FALSE when it returns false.
placementStep(cand, r, gap) ==
    IF rectsIntersectStrict(cand, r) THEN FALSE
    ELSE LET touchOrOverlap == rectsTouchOrOverlap(cand, r)
             candInR == rectContains(r, cand)
             rInCand == rectContains(cand, r)
         IN IF candInR \/ rInCand
            THEN IF candInR THEN containsWithGap(r, cand, gap)
                            ELSE containsWithGap(cand, r, gap)
            ELSE LET distSq == minEdgeDistanceSq(cand, r)
                 IN /\ ~(distSq < gap * gap)
                    /\ ~(touchOrOverlap /\ distSq = 0)

RECURSIVE validFrom(_, _, _, _)
\* for (let i = ...; i < rects.length; i++), from index i on
validFrom(i, cand, rs, gap) ==
    IF i > Len(rs) THEN TRUE
    ELSE IF ~placementStep(cand, rs[i], gap) THEN FALSE
    ELSE validFrom(i + 1, cand, rs, gap)

\* the loop stops one rectangle early: i < rects.length - 1
isValidPlacement_SkipLast(cand, rs, gap) ==
    validFrom(1, cand, SubSeq(rs, 1, Len(rs) - 1), gap)

isValidPlacement(cand, rs, gap) == validFrom(1, cand, rs, gap)

---------------------------------------------------------------------------
(* generateRectangles *)

\* Math.random() * (max - min + 2): one value too many
randInt_OneTooMany(min, max) == min .. max + 1

\* randInt(min, max) = Math.floor(Math.random() * (max - min + 1)) + min with
\* Math.random() in [0, 1): for integers min <= max, any integer of min..max.
randInt(min, max) == min .. max

Min(a, b) == IF a <= b THEN a ELSE b

\* randInt(min, max) for a max that is the fraction maxNum / den: the values of
\* Math.floor(Math.random() * (max - min + 1)) + min with Math.random() in [0, 1),
\* that is min + k for the integers 0 <= k < max - min + 1
randIntQ(min, maxNum, den) ==
    { v \in min .. min + Max(0, maxNum \div den - min) + 1 :
        (v - min) * den < maxNum - min * den + den }

\* The per-rectangle retry budget the model runs with: MAX_ATTEMPTS_PER_RECT,
\* capped by the bound MaxRetries to keep the attempt counter small.
AttemptsPerRect == Min(MAX_ATTEMPTS_PER_RECT, MaxRetries)

\* the budget is not multiplied by targetCount
MAX_TOTAL_ATTEMPTS_PerRectOnly == AttemptsPerRect

MAX_TOTAL_ATTEMPTS == targetCount * AttemptsPerRect

\* the attempt budget is not tested
LoopCondition_NoBudget == Len(rects) < targetCount

\* rects.length <= targetCount
LoopCondition_OffByOne ==
    Len(rects) <= targetCount /\ attempts < MAX_TOTAL_ATTEMPTS

\* attempts < MAX_TOTAL_ATTEMPTS - 1: the loop gives up one attempt early
LoopCondition_EarlyExit ==
    Len(rects) < targetCount /\ attempts < MAX_TOTAL_ATTEMPTS - 1

\* do { ... } while (...): the body runs once before the condition is tested
LoopCondition_DoWhile ==
    \/ attempts = 0
    \/ Len(rects) < targetCount /\ attempts < MAX_TOTAL_ATTEMPTS

\* while (rects.length < targetCount && attempts < MAX_TOTAL_ATTEMPTS)
LoopCondition ==
    Len(rects) < targetCount /\ attempts < MAX_TOTAL_ATTEMPTS

PackInit ==
    /\ width \in 1 .. MaxWidth
    /\ height \in 1 .. MaxHeight
    /\ targetCount \in 0 .. MaxTarget
    /\ minSize \in 1 .. MaxSize
    /\ maxSize \in minSize .. MaxSize
    /\ rects = << >>
    /\ attempts = 0
    /\ draws = 0
    /\ pc = "loop"

PairIdle ==
    /\ candidate = Rect(0, 0, 1, 1)
    /\ others = << >>
    /\ valid = FALSE
    /\ returned = FALSE

\* no second invocation
CallBIdle ==
    /\ rectsB = << >>
    /\ attemptsB = 0
    /\ pcB = "done"

\* no candidate drawn for a device-pixel canvas
DrawIdle ==
    /\ canvasWidth = 1
    /\ canvasHeight = 1
    /\ dpr = 1
    /\ drawn = TRUE

DEFAULT_CONFIG == [count |-> 1000, minSize |-> 5, maxSize |-> 50]

\* no generateRectangles call made
NoCall == [called |-> FALSE, count |-> 0, minSize |-> 0, maxSize |-> 0]

\* the page has not run any configuration
ConfigIdle ==
    /\ activeConfig = DEFAULT_CONFIG
    /\ activeSourceLabel = "defaults"
    /\ genCall = NoCall

\* getEffectiveColor is not being called
ColorIdle ==
    /\ colorRect = Rect(0, 0, 1, 1)
    /\ zones = << >>
    /\ effectiveColor = 0
    /\ colored = TRUE

\* processPrompt has not answered
NoResult == [type |-> "none"]

\* no prompt handling
PromptIdle ==
    /\ apiKey = [kind |-> "undefined"]
    /\ llmLoaded = FALSE
    /\ historyEnabled = FALSE
    /\ promptInput = << >>
    /\ promptText = << >>
    /\ statusText = ""
    /\ pcPrompt = "ready"
    /\ requested = FALSE
    /\ rendered = FALSE
    /\ saved = FALSE
    /\ configBefore = DEFAULT_CONFIG
    /\ saveCalls = 0
    /\ result = NoResult

\* the history server has received no request
ServerIdle ==
    /\ historyLimitEnv = [kind |-> "undefined"]
    /\ art_history = {}
    /\ dbClock = 0
    /\ httpStatus = 0
    /\ items = << >>
    /\ reqBody = [kind |-> "undefined"]
    /\ errorBody = ""

\* nothing saved, nothing replayed
ReplayIdle ==
    /\ savedRender = << >>
    /\ wire = << >>
    /\ storedRow = << >>
    /\ entryRects = << >>
    /\ loadRender = << >>
    /\ loadGenCalls = 0
    /\ pcReplay = "idle"

\* no history list, no request under way
ClientIdle ==
    /\ artHistory = << >>
    /\ historyLoadError = ""
    /\ historyFetch = [pc |-> "none", items |-> << >>]
    /\ promptRuns = << >>

RestIdle ==
    ConfigIdle /\ ColorIdle /\ PromptIdle /\ ServerIdle /\ ReplayIdle /\ ClientIdle

Init == PackInit /\ PairIdle /\ CallBIdle /\ DrawIdle /\ RestIdle

\* an iteration that puts an accepted candidate at the front of rects
Attempt_Unshift ==
    /\ pc = "loop"
    /\ LoopCondition
    /\ attempts' = attempts + 1
    /\ draws' = draws + 4
    /\ \E w \in randInt(minSize, maxSize), h \in randInt(minSize, maxSize) :
         \E x \in randInt(0, Max(0, width - w)), y \in randInt(0, Max(0, height - h)) :
            LET cand == Rect(x, y, w, h)
            IN rects' = IF isValidPlacement(cand, rects, GAP)
                        THEN << cand >> \o rects
                        ELSE rects
    /\ UNCHANGED <<width, height, targetCount, minSize, maxSize, pc>>
    /\ UNCHANGED <<pairVars, callBVars, drawVars, restVars>>

\* one iteration of the while loop
Attempt ==
    /\ pc = "loop"
    /\ LoopCondition
    /\ attempts' = attempts + 1
    /\ draws' = draws + 4
    /\ \E w \in randInt(minSize, maxSize), h \in randInt(minSize, maxSize) :
         \E x \in randInt(0, Max(0, width - w)), y \in randInt(0, Max(0, height - h)) :
            LET cand == Rect(x, y, w, h)
            IN rects' = IF isValidPlacement(cand, rects, GAP)
                        THEN Append(rects, cand)
                        ELSE rects
    /\ UNCHANGED <<width, height, targetCount, minSize, maxSize, pc>>
    /\ UNCHANGED <<pairVars, callBVars, drawVars, restVars>>

\* the loop condition fails: return rects
Return ==
    /\ pc = "loop"
    /\ ~LoopCondition
    /\ pc' = "done"
    /\ UNCHANGED <<width, height, targetCount, minSize, maxSize, rects, attempts, draws>>
    /\ UNCHANGED <<pairVars, callBVars, drawVars, restVars>>

Next == Attempt \/ Return

Spec == Init /\ [][Next]_vars

---------------------------------------------------------------------------
(* isValidPlacement on its own: a candidate against one existing rectangle *)

\* the rectangles of the scenarios of spec.md, section 8
ScenarioRects ==
    { Rect(0, 0, 50, 50), Rect(10, 10, 20, 20), Rect(0, 10, 20, 20),
      Rect(0, 0, 10, 10), Rect(12, 0, 10, 10), Rect(11, 0, 10, 10),
      Rect(0, 12, 10, 10), Rect(0, 11, 10, 10) }

PairRects ==
    [x : 0 .. MaxCoord, y : 0 .. MaxCoord, w : 1 .. MaxDim, h : 1 .. MaxDim]
        \cup ScenarioRects

PackIdle ==
    /\ width = 1
    /\ height = 1
    /\ targetCount = 0
    /\ minSize = 1
    /\ maxSize = 1
    /\ rects = << >>
    /\ attempts = 0
    /\ draws = 0
    /\ pc = "done"

InitPair ==
    /\ PackIdle
    /\ CallBIdle
    /\ DrawIdle
    /\ RestIdle
    /\ candidate \in PairRects
    /\ \E r \in PairRects : others = << r >>
    /\ valid = FALSE
    /\ returned = FALSE

\* the call isValidPlacement(candidate, others, GAP)
Validate ==
    /\ ~returned
    /\ valid' = isValidPlacement(candidate, others, GAP)
    /\ returned' = TRUE
    /\ UNCHANGED <<candidate, others>>
    /\ UNCHANGED <<packVars, callBVars, drawVars, restVars>>

NextPair == Validate

SpecPair == InitPair /\ [][NextPair]_vars

---------------------------------------------------------------------------
(* Properties of generateRectangles, checked under Spec *)

Pairs == { p \in (1 .. Len(rects)) \X (1 .. Len(rects)) : p[1] < p[2] }

\* the areas of a and b are disjoint (edges may touch)
AreasDisjoint(a, b) ==
    \/ a.x + a.w <= b.x
    \/ b.x + b.w <= a.x
    \/ a.y + a.h <= b.y
    \/ b.y + b.h <= a.y

\* all four sides of inner lie within the sides of outer, inclusive
Inside(outer, inner) ==
    /\ outer.x <= inner.x
    /\ outer.y <= inner.y
    /\ inner.x + inner.w <= outer.x + outer.w
    /\ inner.y + inner.h <= outer.y + outer.h

\* separation of the intervals [lo1, lo1 + len1] and [lo2, lo2 + len2], 0 when they meet
AxisSep(lo1, len1, lo2, len2) == Max(0, Max(lo2 - (lo1 + len1), lo1 - (lo2 + len2)))

SepX(a, b) == AxisSep(a.x, a.w, b.x, b.w)
SepY(a, b) == AxisSep(a.y, a.h, b.y, b.h)

\* every side of inner is at least GAP inside the corresponding side of outer
MarginOK(outer, inner) ==
    /\ inner.x >= outer.x + GAP
    /\ inner.y >= outer.y + GAP
    /\ inner.x + inner.w + GAP <= outer.x + outer.w
    /\ inner.y + inner.h + GAP <= outer.y + outer.h

InCanvas(r) ==
    /\ 0 <= r.x
    /\ 0 <= r.y
    /\ r.x + r.w <= width
    /\ r.y + r.h <= height

\* C1: no two distinct rectangles of the placement set have strictly
\* intersecting areas, after every attempt and at return.
C1_NoOverlap ==
    \A p \in Pairs : AreasDisjoint(rects[p[1]], rects[p[2]])

\* generateRectangles returned two rectangles after rejecting a candidate
C1_Witness ==
    /\ pc = "done"
    /\ Len(rects) = 2
    /\ attempts > Len(rects)

\* C2: every pair of placed rectangles in which neither contains the other is
\* at Euclidean border distance >= GAP: dx*dx + dy*dy >= GAP*GAP.
C2_MinimumGap ==
    \A p \in Pairs :
        LET a == rects[p[1]]
            b == rects[p[2]]
        IN ~(Inside(a, b) \/ Inside(b, a))
              => SepX(a, b) * SepX(a, b) + SepY(a, b) * SepY(a, b) >= GAP * GAP

\* two rectangles were returned that are separated diagonally (dx > 0 and dy > 0)
C2_Witness ==
    /\ pc = "done"
    /\ \E p \in Pairs :
          /\ SepX(rects[p[1]], rects[p[2]]) > 0
          /\ SepY(rects[p[1]], rects[p[2]]) > 0

\* C3: every rectangle of the placement set lies within [0, width] x [0, height],
\* also when maxSize is larger than the canvas.
C3_CanvasContainment ==
    \A i \in 1 .. Len(rects) : InCanvas(rects[i])

\* C4: the attempt counter never exceeds targetCount * MAX_ATTEMPTS_PER_RECT
\* (the ceiling MAX_TOTAL_ATTEMPTS the loop computes), and every step of the
\* call either makes one more attempt or returns.
C4_BoundedTermination ==
    /\ [](attempts <= MAX_TOTAL_ATTEMPTS /\ attempts <= targetCount * MAX_ATTEMPTS_PER_RECT)
    /\ [][attempts' = attempts + 1 \/ (pc = "loop" /\ pc' = "done" /\ attempts' = attempts)]_vars

\* the call returned short of targetCount with the attempt budget used up
C4_Witness ==
    /\ pc = "done"
    /\ targetCount > 0
    /\ attempts = MAX_TOTAL_ATTEMPTS
    /\ Len(rects) < targetCount

\* C5: the number of placed rectangles is at most targetCount and at most the
\* number of attempts made so far.
C5_ResultSize ==
    /\ Len(rects) <= targetCount
    /\ Len(rects) <= attempts

\* the call returned with exactly targetCount >= 2 rectangles
C5_Witness ==
    /\ pc = "done"
    /\ targetCount >= 2
    /\ Len(rects) = targetCount

\* no pair of placed rectangles has one containing the other
NoContainmentPair ==
    \A p \in Pairs :
        ~(Inside(rects[p[1]], rects[p[2]]) \/ Inside(rects[p[2]], rects[p[1]]))

\* C7: in every pair of placed rectangles where one contains the other, each
\* side of the inner one is offset by >= GAP from the side of the outer one.
C7_ContainmentMargin ==
    \A p \in Pairs :
        LET a == rects[p[1]]
            b == rects[p[2]]
        IN /\ Inside(a, b) => MarginOK(a, b)
           /\ Inside(b, a) => MarginOK(b, a)

\* C9: with targetCount = 0 the loop is never entered: no attempt is made, no
\* random value is drawn and the placement set stays empty.
C9_ZeroTarget ==
    targetCount = 0 =>
        /\ ~LoopCondition
        /\ rects = << >>
        /\ attempts = 0
        /\ draws = 0

\* the call with targetCount = 0 has returned
C9_Witness ==
    /\ targetCount = 0
    /\ pc = "done"
    /\ rects = << >>

\* C10: when minSize exceeds both canvas dimensions, the returned list has at
\* most one rectangle and a returned rectangle fits within the canvas.
C10_LargerThanCanvas ==
    (pc = "done" /\ minSize > width /\ minSize > height) =>
        /\ Len(rects) <= 1
        /\ \A i \in 1 .. Len(rects) :
              rects[i].x + rects[i].w <= width /\ rects[i].y + rects[i].h <= height

\* the part of C10 the code keeps: at most one rectangle is returned
C10_AtMostOne ==
    (minSize > width /\ minSize > height) => Len(rects) <= 1

---------------------------------------------------------------------------
(* Properties of isValidPlacement, checked under SpecPair *)

\* C6: a candidate that lies inside the existing rectangle, or contains it, is
\* accepted if and only if every side of the inner one is at least GAP away
\* from the corresponding side of the outer one.
C6_NestingWithMargin ==
    returned =>
        LET r == others[1]
        IN /\ Inside(r, candidate) => (valid <=> MarginOK(r, candidate))
           /\ (Inside(candidate, r) /\ ~Inside(r, candidate))
                 => (valid <=> MarginOK(candidate, r))

\* the rectangles face each other along x over the same y-range
SideBySide(a, b) ==
    /\ a.y = b.y
    /\ a.h = b.h
    /\ (a.x + a.w <= b.x \/ b.x + b.w <= a.x)

\* the rectangles face each other along y over the same x-range
Stacked(a, b) ==
    /\ a.x = b.x
    /\ a.w = b.w
    /\ (a.y + a.h <= b.y \/ b.y + b.h <= a.y)

\* C8: two rectangles with the same y-range, separated along x, are accepted
\* exactly when the distance between the facing edges is >= GAP; likewise for
\* the same x-range and separation along y.
C8_SideBySide ==
    returned =>
        LET r == others[1]
        IN /\ SideBySide(candidate, r) => (valid <=> SepX(candidate, r) >= GAP)
           /\ Stacked(candidate, r) => (valid <=> SepY(candidate, r) >= GAP)

\* the scenario x = 0..10 next to x = 12..22 was accepted
C8_Witness ==
    /\ returned
    /\ valid
    /\ candidate = Rect(12, 0, 10, 10)
    /\ others = << Rect(0, 0, 10, 10) >>

\* the scenario x = 0..10 next to x = 11..21 was rejected
C8_WitnessRejected ==
    /\ returned
    /\ ~valid
    /\ candidate = Rect(11, 0, 10, 10)
    /\ others = << Rect(0, 0, 10, 10) >>

---------------------------------------------------------------------------
(* Further properties of generateRectangles, checked under Spec *)

\* some candidate the loop can draw would be accepted: the canvas still has room
FreeSlot ==
    \E w \in minSize .. maxSize, h \in minSize .. maxSize :
        \E x \in 0 .. Max(0, width - w), y \in 0 .. Max(0, height - h) :
            \A i \in 1 .. Len(rects) :
                LET a == Rect(x, y, w, h)
                    b == rects[i]
                IN /\ AreasDisjoint(a, b)
                   /\ SepX(a, b) * SepX(a, b) + SepY(a, b) * SepY(a, b) >= GAP * GAP

C12_SingleDegradedPath ==
    /\ pc = "done" =>
          \/ Len(rects) = targetCount
          \/ (Len(rects) < targetCount /\ attempts = targetCount * AttemptsPerRect)
    /\ pc \in {"loop", "done"}

\* the degraded path: returned at least one rectangle, but fewer than asked
C12_Witness ==
    /\ pc = "done"
    /\ Len(rects) >= 1
    /\ Len(rects) < targetCount
    /\ attempts = targetCount * AttemptsPerRect

\* C20: every placed rectangle has integer width and height, each within
\* [minSize, maxSize].
C20_SizeRange ==
    \A i \in 1 .. Len(rects) :
        /\ rects[i].w \in Int
        /\ rects[i].h \in Int
        /\ minSize <= rects[i].w /\ rects[i].w <= maxSize
        /\ minSize <= rects[i].h /\ rects[i].h <= maxSize

\* both bounds are attained, independently for width and height: a returned
\* rectangle has the smallest width and the largest height
C20_Witness ==
    /\ pc = "done"
    /\ minSize < maxSize
    /\ \E i \in 1 .. Len(rects) : rects[i].w = minSize /\ rects[i].h = maxSize

---------------------------------------------------------------------------
(* Two invocations of generateRectangles, interleaved iteration by iteration. *)
(* Each invocation has its own locals rects and attempts (rects.js 256-257);  *)
(* both are called with the same arguments.                                   *)

InitTwo ==
    /\ width \in 1 .. MaxWidth
    /\ height = 1
    /\ targetCount \in 0 .. MaxTarget
    /\ minSize = 1
    /\ maxSize = 1
    /\ rects = << >>
    /\ attempts = 0
    /\ draws = 0
    /\ pc = "loop"
    /\ rectsB = << >>
    /\ attemptsB = 0
    /\ pcB = "loop"
    /\ PairIdle
    /\ DrawIdle
    /\ RestIdle

\* rects is one array shared by all invocations instead of a local
AttemptB_SharedBuffer ==
    /\ pcB = "loop"
    /\ Len(rects) < targetCount /\ attemptsB < MAX_TOTAL_ATTEMPTS
    /\ attemptsB' = attemptsB + 1
    /\ \E w \in randInt(minSize, maxSize), h \in randInt(minSize, maxSize) :
         \E x \in randInt(0, Max(0, width - w)), y \in randInt(0, Max(0, height - h)) :
            LET cand == Rect(x, y, w, h)
            IN rects' = IF isValidPlacement(cand, rects, GAP)
                        THEN Append(rects, cand)
                        ELSE rects
    /\ UNCHANGED <<width, height, targetCount, minSize, maxSize, attempts, draws, pc>>
    /\ UNCHANGED <<rectsB, pcB>>
    /\ UNCHANGED <<pairVars, drawVars, restVars>>

\* one iteration of the while loop of the second invocation
AttemptB ==
    /\ pcB = "loop"
    /\ Len(rectsB) < targetCount /\ attemptsB < MAX_TOTAL_ATTEMPTS
    /\ attemptsB' = attemptsB + 1
    /\ \E w \in randInt(minSize, maxSize), h \in randInt(minSize, maxSize) :
         \E x \in randInt(0, Max(0, width - w)), y \in randInt(0, Max(0, height - h)) :
            LET cand == Rect(x, y, w, h)
            IN rectsB' = IF isValidPlacement(cand, rectsB, GAP)
                         THEN Append(rectsB, cand)
                         ELSE rectsB
    /\ UNCHANGED pcB
    /\ UNCHANGED <<packVars, pairVars, drawVars, restVars>>

\* the second invocation returns
ReturnB ==
    /\ pcB = "loop"
    /\ ~(Len(rectsB) < targetCount /\ attemptsB < MAX_TOTAL_ATTEMPTS)
    /\ pcB' = "done"
    /\ UNCHANGED <<rectsB, attemptsB>>
    /\ UNCHANGED <<packVars, pairVars, drawVars, restVars>>

NextTwo == Attempt \/ Return \/ AttemptB \/ ReturnB

SpecTwo == InitTwo /\ [][NextTwo]_vars

\* rs satisfies the placement rules on its own
SetValid(rs) ==
    \A i \in 1 .. Len(rs), j \in 1 .. Len(rs) :
        i < j => /\ AreasDisjoint(rs[i], rs[j])
                 /\ SepX(rs[i], rs[j]) * SepX(rs[i], rs[j])
                       + SepY(rs[i], rs[j]) * SepY(rs[i], rs[j]) >= GAP * GAP

\* (rs, at, p) -> (rs2, at2, p2) is a step one invocation can take when it runs alone
SoloStep(rs, at, p, rs2, at2, p2) ==
    \/ /\ p = "loop" /\ p2 = "loop"
       /\ Len(rs) < targetCount /\ at < targetCount * AttemptsPerRect
       /\ at2 = at + 1
       /\ \/ rs2 = rs
          \/ /\ Len(rs2) = Len(rs) + 1
             /\ SubSeq(rs2, 1, Len(rs)) = rs
             /\ SetValid(rs2)
    \/ /\ p = "loop" /\ p2 = "done"
       /\ ~(Len(rs) < targetCount /\ at < targetCount * AttemptsPerRect)
       /\ rs2 = rs /\ at2 = at

\* C13: a step of one invocation leaves the placement set, attempt counter and
\* position of the other unchanged and is a step it could take alone; each
\* placement set satisfies no-overlap and minimum gap on its own.
C13_IndependentInvocations ==
    /\ [](SetValid(rects) /\ SetValid(rectsB))
    /\ [][/\ (<<rects, attempts, pc>>' = <<rects, attempts, pc>>
                \/ <<rectsB, attemptsB, pcB>>' = <<rectsB, attemptsB, pcB>>)
          /\ (<<rects, attempts, pc>>' # <<rects, attempts, pc>>
                => SoloStep(rects, attempts, pc, rects', attempts', pc'))
          /\ (<<rectsB, attemptsB, pcB>>' # <<rectsB, attemptsB, pcB>>
                => SoloStep(rectsB, attemptsB, pcB, rectsB', attemptsB', pcB'))]_vars

\* both invocations returned two rectangles each, and different ones
C13_Witness ==
    /\ pc = "done" /\ pcB = "done"
    /\ Len(rects) = 2 /\ Len(rectsB) = 2
    /\ rects # rectsB
    /\ attempts # attemptsB

---------------------------------------------------------------------------
(* One candidate drawn for a canvas measured in device pixels: runWithConfig *)
(* passes cssWidth = canvas.width / dpr and cssHeight = canvas.height / dpr, *)
(* which are fractions with denominator dpr.                                 *)

InitDraw ==
    /\ canvasWidth \in 1 .. MaxCanvas
    /\ canvasHeight \in 1 .. MaxCanvas
    /\ dpr \in 1 .. MaxDpr
    /\ drawn = FALSE
    /\ width = 1 /\ height = 1 /\ targetCount = 0
    /\ minSize \in 1 .. MaxSize
    /\ maxSize \in minSize .. MaxSize
    /\ rects = << >> /\ attempts = 0 /\ draws = 0 /\ pc = "done"
    /\ PairIdle
    /\ CallBIdle
    /\ RestIdle

\* the four draws of one loop iteration, with width = canvasWidth / dpr
DrawCandidate ==
    /\ ~drawn
    /\ \E w \in randInt(minSize, maxSize), h \in randInt(minSize, maxSize) :
         \E x \in randIntQ(0, Max(0, canvasWidth - w * dpr), dpr),
            y \in randIntQ(0, Max(0, canvasHeight - h * dpr), dpr) :
            candidate' = Rect(x, y, w, h)
    /\ drawn' = TRUE
    /\ UNCHANGED <<canvasWidth, canvasHeight, dpr>>
    /\ UNCHANGED <<others, valid, returned>>
    /\ UNCHANGED <<packVars, callBVars, restVars>>

NextDraw == DrawCandidate

SpecDraw == InitDraw /\ [][NextDraw]_vars

\* C19: the drawn corner satisfies 0 <= x <= max(0, width - w) and
\* 0 <= y <= max(0, height - h) for width = canvasWidth / dpr and
\* height = canvasHeight / dpr (compared after multiplying by dpr), so a
\* candidate no larger than the canvas lies inside it.
C19_PositionRange ==
    drawn =>
        /\ 0 <= candidate.x
        /\ candidate.x * dpr <= Max(0, canvasWidth - candidate.w * dpr)
        /\ 0 <= candidate.y
        /\ candidate.y * dpr <= Max(0, canvasHeight - candidate.h * dpr)
        /\ (candidate.w * dpr <= canvasWidth
              => (candidate.x + candidate.w) * dpr <= canvasWidth)
        /\ (candidate.h * dpr <= canvasHeight
              => (candidate.y + candidate.h) * dpr <= canvasHeight)

GeomIdle == PackIdle /\ PairIdle /\ CallBIdle /\ DrawIdle

---------------------------------------------------------------------------
(* sanitizeConfig and the callers of runWithConfig.  A raw field value is a  *)
(* tagged JavaScript value; numbers are kept in half units (n2 = 2 * value)  *)
(* so that Math.round has something to round.                                *)

RawNumber(n2) == [kind |-> "number", n2 |-> n2]
RawString(numeric, n2) == [kind |-> "string", numeric |-> numeric, n2 |-> n2]

\* undefined (missing field), null, NaN, Infinity, true, "abc", "", "12"
NonNumbers ==
    { [kind |-> "undefined"], [kind |-> "null"], [kind |-> "nan"],
      [kind |-> "infinity"], [kind |-> "true"],
      RawString(FALSE, 0), RawString(TRUE, 0), RawString(TRUE, 24) }

\* numbers around the thresholds ts, and non-numbers
RawValues(ts) ==
    { RawNumber(2 * t + d) : t \in ts, d \in -MaxSpread .. MaxSpread }
        \cup NonNumbers

RawConfigs ==
    { [isObject |-> FALSE] }
        \cup [isObject : {TRUE},
              count : RawValues({500, 5000}),
              minSize : RawValues({5, 30}),
              maxSize : RawValues({10, 50})]

\* Number(value): finite tells Number.isFinite, n2 is twice the number
ToNumber(value) ==
    CASE value.kind = "number" -> [finite |-> TRUE, n2 |-> value.n2]
      [] value.kind = "string" -> IF value.numeric
                                  THEN [finite |-> TRUE, n2 |-> value.n2]
                                  ELSE [finite |-> FALSE, n2 |-> 0]
      [] value.kind = "null" -> [finite |-> TRUE, n2 |-> 0]
      [] value.kind = "true" -> [finite |-> TRUE, n2 |-> 2]
      [] OTHER -> [finite |-> FALSE, n2 |-> 0]

\* Math.round of n2 / 2: halves round up
MathRound(n2) == (n2 + 1) \div 2

\* clampNumber without the upper bound
clampNumber_NoUpper(value, min, max, fallback) ==
    LET num == ToNumber(value)
        rounded == MathRound(num.n2)
    IN IF ~num.finite THEN fallback
       ELSE IF rounded < min THEN min
       ELSE rounded

clampNumber(value, min, max, fallback) ==
    LET num == ToNumber(value)
        rounded == MathRound(num.n2)
    IN IF ~num.finite THEN fallback
       ELSE IF rounded < min THEN min
       ELSE IF rounded > max THEN max
       ELSE rounded

\* sanitizeConfig that takes maxCandidate as maxSize
sanitizeConfig_NoMaxFix(config) ==
    IF ~config.isObject THEN DEFAULT_CONFIG
    ELSE LET min == clampNumber(config.minSize, 5, 30, DEFAULT_CONFIG.minSize)
             maxCandidate == clampNumber(config.maxSize, 10, 50,
                                         Max(DEFAULT_CONFIG.maxSize, min))
         IN [count |-> clampNumber(config.count, 500, 5000, DEFAULT_CONFIG.count),
             minSize |-> min,
             maxSize |-> maxCandidate]

sanitizeConfig(config) ==
    IF ~config.isObject THEN DEFAULT_CONFIG
    ELSE LET min == clampNumber(config.minSize, 5, 30, DEFAULT_CONFIG.minSize)
             maxCandidate == clampNumber(config.maxSize, 10, 50,
                                         Max(DEFAULT_CONFIG.maxSize, min))
         IN [count |-> clampNumber(config.count, 500, 5000, DEFAULT_CONFIG.count),
             minSize |-> min,
             maxSize |-> Max(min, maxCandidate)]

\* a sanitized configuration passed again as a config object
AsRaw(cfg) ==
    [isObject |-> TRUE,
     count |-> RawNumber(2 * cfg.count),
     minSize |-> RawNumber(2 * cfg.minSize),
     maxSize |-> RawNumber(2 * cfg.maxSize)]

\* historyClient.sanitizeConfig: a non-object becomes {}
EntryConfig(config) ==
    IF config.isObject THEN config
    ELSE [isObject |-> TRUE, count |-> [kind |-> "undefined"],
          minSize |-> [kind |-> "undefined"], maxSize |-> [kind |-> "undefined"]]

\* runWithConfig(config, sourceLabel, options); hasProvidedRectangles tells
\* whether options.rectangles is an array
runWithConfig(config, sourceLabel, hasProvidedRectangles) ==
    LET safeConfig == sanitizeConfig(config)
    IN /\ activeConfig' = safeConfig
       /\ activeSourceLabel' = sourceLabel
       /\ genCall' = IF hasProvidedRectangles
                     THEN NoCall
                     ELSE [called |-> TRUE, count |-> safeConfig.count,
                           minSize |-> safeConfig.minSize,
                           maxSize |-> safeConfig.maxSize]

\* the state after the initial draw runWithConfig(DEFAULT_CONFIG, "defaults")
InitConfig ==
    /\ activeConfig = sanitizeConfig(AsRaw(DEFAULT_CONFIG))
    /\ activeSourceLabel = "defaults"
    /\ genCall = [called |-> TRUE, count |-> activeConfig.count,
                  minSize |-> activeConfig.minSize, maxSize |-> activeConfig.maxSize]
    /\ GeomIdle
    /\ ColorIdle
    /\ PromptIdle
    /\ ServerIdle
    /\ ReplayIdle
    /\ ClientIdle

\* handlePromptRun with a result of type "rectangles"
PromptRectangles ==
    /\ \E config \in RawConfigs : runWithConfig(config, "rectangles", FALSE)
    /\ UNCHANGED exceptCfg

\* handlePromptRun with a result of type "art_plan": runWithArtPlan spreads
\* artPlan.rectangles into an object
PromptArtPlan ==
    /\ \E config \in RawConfigs :
         /\ config.isObject
         /\ runWithConfig(config, "art plan", FALSE)
    /\ UNCHANGED exceptCfg

\* loadHistoryEntry: the entry's rectangles are provided
LoadHistoryConfig ==
    /\ \E config \in RawConfigs : runWithConfig(EntryConfig(config), "history", TRUE)
    /\ UNCHANGED exceptCfg

\* the window resize listener: redrawActiveConfig
Resize ==
    /\ runWithConfig(AsRaw(activeConfig), activeSourceLabel, FALSE)
    /\ UNCHANGED exceptCfg

NextConfig == PromptRectangles \/ PromptArtPlan \/ LoadHistoryConfig \/ Resize

SpecConfig == InitConfig /\ [][NextConfig]_vars

\* C14: activeConfig holds integers with 500 <= count <= 5000, 5 <= minSize <= 30,
\* 10 <= maxSize <= 50 and minSize <= maxSize, and every generateRectangles call
\* made by runWithConfig has 1 <= minSize <= maxSize and count >= 0.
C14_SanitizedConfig ==
    /\ activeConfig.count \in 500 .. 5000
    /\ activeConfig.minSize \in 5 .. 30
    /\ activeConfig.maxSize \in 10 .. 50
    /\ activeConfig.minSize <= activeConfig.maxSize
    /\ genCall.called =>
         /\ genCall.count \in Nat
         /\ genCall.minSize \in Nat /\ genCall.maxSize \in Nat
         /\ 1 <= genCall.minSize
         /\ genCall.minSize <= genCall.maxSize
         /\ genCall.count >= 0

\* a prompt run whose maxSize was raised to minSize and whose count was clamped
\* to the maximum, then used for a generateRectangles call
C14_Witness ==
    /\ activeSourceLabel = "rectangles"
    /\ activeConfig = [count |-> 5000, minSize |-> 30, maxSize |-> 30]
    /\ genCall.called
    /\ genCall.minSize = 30 /\ genCall.maxSize = 30

---------------------------------------------------------------------------
(* getEffectiveColor(rect, zones, defaultColor).  Colours are numbers: zone *)
(* i of a list carries colour i, the default colour is 0.  The centre of    *)
(* rect has half-integer coordinates, so every comparison is made on        *)
(* doubled values.                                                          *)

DefaultColor == 0

Circle(x, y, radius, color) ==
    [type |-> "circle", x |-> x, y |-> y, radius |-> radius, color |-> color]

RectangleZone(x, y, w, h, color) ==
    [type |-> "rectangle", x |-> x, y |-> y, width |-> w, height |-> h, color |-> color]

\* the zones that can stand at place i of a list
ZonesAt(i) ==
    { Circle(x, y, r, i) : x \in 0 .. ZoneColumns - 1, y \in {0, 1}, r \in {1, 2} }
        \cup { RectangleZone(x, y, w, h, i) :
                 x \in 0 .. ZoneColumns - 1, y \in {0, 1}, w \in {1, 2}, h \in {1, 2} }

ZoneLists ==
    UNION { { zs \in [1 .. n -> UNION { ZonesAt(i) : i \in 1 .. n }] :
                \A i \in 1 .. n : zs[i] \in ZonesAt(i) } : n \in 0 .. MaxZones }

ColorRects ==
    { Rect(x, y, w, h) : x \in 0 .. ZoneColumns - 1, y \in {0, 1}, w \in {1, 2}, h \in {1, 2} }

\* twice rectCenterX and rectCenterY
rectCenterX2(rect) == 2 * rect.x + rect.w
rectCenterY2(rect) == 2 * rect.y + rect.h

\* the test made on one zone: Math.hypot(dx, dy) <= radius for a circle, the
\* four comparisons for a rectangle, no match for any other type
zoneMatches(rect, zone) ==
    IF zone.type = "circle"
    THEN LET dx2 == rectCenterX2(rect) - 2 * zone.x
             dy2 == rectCenterY2(rect) - 2 * zone.y
         IN zone.radius >= 0 /\ dx2 * dx2 + dy2 * dy2 <= 4 * zone.radius * zone.radius
    ELSE IF zone.type = "rectangle"
    THEN /\ rectCenterX2(rect) >= 2 * zone.x
         /\ rectCenterX2(rect) <= 2 * (zone.x + zone.width)
         /\ rectCenterY2(rect) >= 2 * zone.y
         /\ rectCenterY2(rect) <= 2 * (zone.y + zone.height)
    ELSE FALSE

RECURSIVE colorFrom(_, _, _, _)
\* the for loop from zone i on
colorFrom(i, rect, zs, defaultColor) ==
    IF i > Len(zs) THEN defaultColor
    ELSE IF zoneMatches(rect, zs[i]) THEN zs[i].color
    ELSE colorFrom(i + 1, rect, zs, defaultColor)

RECURSIVE colorFromLast(_, _, _, _)
\* a loop that keeps the colour of the last matching zone
colorFromLast(i, rect, zs, current) ==
    IF i > Len(zs) THEN current
    ELSE IF zoneMatches(rect, zs[i]) THEN colorFromLast(i + 1, rect, zs, zs[i].color)
    ELSE colorFromLast(i + 1, rect, zs, current)

getEffectiveColor_LastMatch(rect, zs, defaultColor) ==
    colorFromLast(1, rect, zs, defaultColor)

getEffectiveColor(rect, zs, defaultColor) == colorFrom(1, rect, zs, defaultColor)

InitColor ==
    /\ colorRect \in ColorRects
    /\ zones \in ZoneLists
    /\ effectiveColor = DefaultColor
    /\ colored = FALSE
    /\ GeomIdle
    /\ ConfigIdle
    /\ PromptIdle
    /\ ServerIdle
    /\ ReplayIdle
    /\ ClientIdle

\* the call getEffectiveColor(colorRect, zones, DefaultColor)
ComputeColor ==
    /\ ~colored
    /\ effectiveColor' = getEffectiveColor(colorRect, zones, DefaultColor)
    /\ colored' = TRUE
    /\ UNCHANGED <<colorRect, zones>>
    /\ UNCHANGED exceptColor

NextColor == ComputeColor

SpecColor == InitColor /\ [][NextColor]_vars

\* zone z contains the centre of r: squared distance to the zone centre at most
\* the squared radius, or centre within [x, x + width] x [y, y + height]
ZoneContainsCentre(z, r) ==
    \/ /\ z.type = "circle"
       /\ (2 * r.x + r.w - 2 * z.x) * (2 * r.x + r.w - 2 * z.x)
            + (2 * r.y + r.h - 2 * z.y) * (2 * r.y + r.h - 2 * z.y)
               <= (2 * z.radius) * (2 * z.radius)
    \/ /\ z.type = "rectangle"
       /\ 2 * z.x <= 2 * r.x + r.w /\ 2 * r.x + r.w <= 2 * z.x + 2 * z.width
       /\ 2 * z.y <= 2 * r.y + r.h /\ 2 * r.y + r.h <= 2 * z.y + 2 * z.height

\* C15: the returned colour is that of the first zone, in list order, containing
\* the centre of the rectangle, and the default colour when no zone contains it.
C15_FirstMatchWins ==
    colored =>
        LET hits == { i \in 1 .. Len(zones) : ZoneContainsCentre(zones[i], colorRect) }
        IN IF hits = {}
           THEN effectiveColor = DefaultColor
           ELSE \E i \in hits : /\ \A j \in hits : i <= j
                                /\ effectiveColor = zones[i].color

\* two zones contain the centre, the first one a circle with the centre exactly
\* on its boundary; the first zone's colour is returned
C15_Witness ==
    /\ colored /\ ~returned
    /\ Len(zones) = 2
    /\ zones[1].type = "circle"
    /\ (rectCenterX2(colorRect) - 2 * zones[1].x) * (rectCenterX2(colorRect) - 2 * zones[1].x)
         + (rectCenterY2(colorRect) - 2 * zones[1].y) * (rectCenterY2(colorRect) - 2 * zones[1].y)
            = 4 * zones[1].radius * zones[1].radius
    /\ ZoneContainsCentre(zones[2], colorRect)
    /\ effectiveColor = 1

\* no zone contains the centre and the default colour is returned
C15_WitnessDefault ==
    /\ colored /\ ~returned
    /\ Len(zones) = 2
    /\ \A i \in 1 .. 2 : ~ZoneContainsCentre(zones[i], colorRect)
    /\ effectiveColor = DefaultColor

---------------------------------------------------------------------------
(* handlePromptRun.  Texts are sequences over a blank and a letter, so that *)
(* trim() has something to remove.  One submission is handled at a time.    *)

Texts == UNION { [1 .. n -> {" ", "a"}] : n \in 0 .. MaxText }

RECURSIVE trimStart(_)
trimStart(t) == IF t # << >> /\ Head(t) = " " THEN trimStart(Tail(t)) ELSE t

RECURSIVE trimEnd(_)
trimEnd(t) ==
    IF t # << >> /\ t[Len(t)] = " " THEN trimEnd(SubSeq(t, 1, Len(t) - 1)) ELSE t

\* String.prototype.trim
trim(t) == trimEnd(trimStart(t))

ApiKeys == { [kind |-> "undefined"] } \cup { [kind |-> "string", text |-> t] : t \in Texts }

\* typeof window.OPENAI_API_KEY === "string" && window.OPENAI_API_KEY.trim().length > 0
isApiKeyAvailable(key) == key.kind = "string" /\ Len(trim(key.text)) > 0

MsgEnterPrompt == "Enter a prompt to generate."
MsgNoLLM == "LLM module unavailable. Check llm.js load order."
MsgSetKey == "Set OPENAI_API_KEY in config.js to use the agent."
MsgConcept == "Generating concept..."
MsgPlaced == "Placed n/count rectangles"
MsgMissingKey == "Error: Missing OpenAI API key."
MsgError == "Error: message"
MsgLoaded == "Loaded saved art from prompt: prompt"
MsgUnknownType == "Error: Unknown result type from AI"
MsgInvalidPlan == "Error: Invalid art plan structure"

\* configurations a language-model result can carry
ResultConfigs ==
    { [isObject |-> FALSE],
      AsRaw(DEFAULT_CONFIG),
      [isObject |-> TRUE, count |-> RawNumber(2 * 700),
       minSize |-> RawNumber(2 * 30), maxSize |-> [kind |-> "undefined"]],
      [isObject |-> TRUE, count |-> RawNumber(2 * 9000),
       minSize |-> RawNumber(2 * 8), maxSize |-> RawNumber(2 * 12)] }

\* the state after the page has loaded and drawn the default configuration
InitPrompt ==
    /\ apiKey \in ApiKeys
    /\ llmLoaded \in BOOLEAN
    /\ historyEnabled \in BOOLEAN
    /\ promptInput \in Texts
    /\ promptText = << >>
    /\ statusText = MsgPlaced
    /\ pcPrompt = "ready"
    /\ requested = FALSE /\ rendered = FALSE /\ saved = FALSE
    /\ activeConfig = sanitizeConfig(AsRaw(DEFAULT_CONFIG))
    /\ configBefore = activeConfig
    /\ saveCalls = 0
    /\ result = NoResult
    /\ activeSourceLabel = "defaults"
    /\ genCall = [called |-> TRUE, count |-> activeConfig.count,
                  minSize |-> activeConfig.minSize, maxSize |-> activeConfig.maxSize]
    /\ GeomIdle
    /\ ColorIdle
    /\ ServerIdle
    /\ ReplayIdle
    /\ ClientIdle

\* the user edits the prompt box
EditPrompt ==
    /\ pcPrompt \in {"ready", "returned"}
    /\ \E t \in Texts : t # promptInput /\ promptInput' = t
    /\ UNCHANGED <<apiKey, llmLoaded, historyEnabled, promptText, statusText, pcPrompt,
                   requested, rendered, saved, configBefore, saveCalls, result>>
    /\ UNCHANGED <<cfgVars, exceptPrompt>>

\* handlePromptRun that goes on to processPrompt without asking isApiKeyAvailable
Submit_NoKeyCheck ==
    /\ pcPrompt \in {"ready", "returned"}
    /\ saveCalls < MaxSaves
    /\ promptText' = trim(promptInput)
    /\ configBefore' = activeConfig
    /\ rendered' = FALSE /\ saved' = FALSE
    /\ IF promptText' = << >>
       THEN statusText' = MsgEnterPrompt /\ pcPrompt' = "returned" /\ requested' = FALSE
       ELSE IF ~llmLoaded
       THEN statusText' = MsgNoLLM /\ pcPrompt' = "returned" /\ requested' = FALSE
       ELSE IF ~isApiKeyAvailable(apiKey)
       THEN statusText' = MsgMissingKey /\ pcPrompt' = "returned" /\ requested' = FALSE
       ELSE statusText' = MsgConcept /\ pcPrompt' = "awaitLLM" /\ requested' = TRUE
    /\ result' = NoResult
    /\ UNCHANGED <<apiKey, llmLoaded, historyEnabled, promptInput, saveCalls>>
    /\ UNCHANGED <<cfgVars, exceptPrompt>>

\* handlePromptRun up to its first await: the three refusals, then processPrompt,
\* which throws without a key and otherwise sends the request
Submit ==
    /\ pcPrompt \in {"ready", "returned"}
    /\ saveCalls < MaxSaves
    /\ promptText' = trim(promptInput)
    /\ configBefore' = activeConfig
    /\ rendered' = FALSE /\ saved' = FALSE
    /\ IF promptText' = << >>
       THEN statusText' = MsgEnterPrompt /\ pcPrompt' = "returned" /\ requested' = FALSE
       ELSE IF ~llmLoaded
       THEN statusText' = MsgNoLLM /\ pcPrompt' = "returned" /\ requested' = FALSE
       ELSE IF ~isApiKeyAvailable(apiKey)
       THEN statusText' = MsgSetKey /\ pcPrompt' = "returned" /\ requested' = FALSE
       ELSE IF ~isApiKeyAvailable(apiKey)
       THEN statusText' = MsgMissingKey /\ pcPrompt' = "returned" /\ requested' = FALSE
       ELSE statusText' = MsgConcept /\ pcPrompt' = "awaitLLM" /\ requested' = TRUE
    /\ result' = NoResult
    /\ UNCHANGED <<apiKey, llmLoaded, historyEnabled, promptInput, saveCalls>>
    /\ UNCHANGED <<cfgVars, exceptPrompt>>

\* art plans: the parsed arguments of create_art_plan, with or without the
\* properties rectangles and colorZones
ArtPlans ==
    { [hasRectangles |-> FALSE, hasColorZones |-> z] : z \in BOOLEAN }
        \cup { [hasRectangles |-> TRUE, hasColorZones |-> z, rectangles |-> c] :
                 z \in BOOLEAN, c \in { c \in ResultConfigs : c.isObject } }

\* what processPrompt resolves to; processToolCalls gives the first two types
Results ==
    { [type |-> "rectangles", config |-> c] : c \in ResultConfigs }
        \cup { [type |-> "art_plan", config |-> p] : p \in ArtPlans }
        \cup { [type |-> "other"] }

\* the catch block of handlePromptRun
CatchError(message) ==
    /\ statusText' = message
    /\ pcPrompt' = "returned"
    /\ UNCHANGED <<rendered, saved, saveCalls>>
    /\ UNCHANGED cfgVars

\* runWithConfig returned renderOutcome; persistPromptResult returns at once
\* without a history server and otherwise calls historyClient.persistHistory
RenderAndPersist(config, sourceLabel) ==
    /\ runWithConfig(config, sourceLabel, FALSE)
    /\ rendered' = TRUE
    /\ statusText' = MsgPlaced
    /\ saved' = historyEnabled
    /\ saveCalls' = IF historyEnabled THEN saveCalls + 1 ELSE saveCalls
    /\ pcPrompt' = IF historyEnabled THEN "awaitSave" ELSE "returned"

\* runWithArtPlan that only asks for artPlan.rectangles
runWithArtPlan_NoColorZonesCheck(artPlan, sourceLabel) ==
    IF ~artPlan.hasRectangles
    THEN CatchError(MsgInvalidPlan)
    ELSE RenderAndPersist(artPlan.rectangles, sourceLabel)

\* runWithArtPlan, called by handlePromptRun: throws on a plan without
\* rectangles or colorZones, else runWithConfig({...artPlan.rectangles, colorZones})
runWithArtPlan(artPlan, sourceLabel) ==
    IF ~artPlan.hasRectangles \/ ~artPlan.hasColorZones
    THEN CatchError(MsgInvalidPlan)
    ELSE RenderAndPersist(artPlan.rectangles, sourceLabel)

\* processPrompt rejects: the request fails, the API answers an error, or the
\* response holds no usable tool call
LLMFailure ==
    /\ pcPrompt = "awaitLLM"
    /\ result' = [type |-> "error"]
    /\ CatchError(MsgError)
    /\ UNCHANGED <<apiKey, llmLoaded, historyEnabled, promptInput, promptText,
                   requested, configBefore>>
    /\ UNCHANGED exceptPrompt

\* processPrompt resolves: handlePromptRun renders by the result's type
LLMResult ==
    /\ pcPrompt = "awaitLLM"
    /\ result' \in Results
    /\ IF result'.type = "rectangles"
       THEN RenderAndPersist(result'.config, "rectangles")
       ELSE IF result'.type = "art_plan"
       THEN runWithArtPlan(result'.config, "art plan")
       ELSE CatchError(MsgUnknownType)
    /\ UNCHANGED <<apiKey, llmLoaded, historyEnabled, promptInput, promptText,
                   requested, configBefore>>
    /\ UNCHANGED exceptPrompt

\* the history API answers the POST, with success or failure
SaveDone ==
    /\ pcPrompt = "awaitSave"
    /\ pcPrompt' = "returned"
    /\ UNCHANGED <<apiKey, llmLoaded, historyEnabled, promptInput, promptText, statusText,
                   requested, rendered, saved, configBefore, saveCalls, result>>
    /\ UNCHANGED <<cfgVars, exceptPrompt>>

NextPrompt == EditPrompt \/ Submit \/ LLMFailure \/ LLMResult \/ SaveDone

SpecPrompt == InitPrompt /\ [][NextPrompt]_vars

\* the page around handlePromptRun: the resize listener and the View buttons
\* of the history list work while a prompt is being handled

\* prompts of stored entries
EntryPrompts == { t \in Texts : t # << >> /\ trim(t) = t }

\* a resize listener that also persists what it has drawn
RedrawActive_Persisting ==
    /\ runWithConfig(AsRaw(activeConfig), activeSourceLabel, FALSE)
    /\ statusText' = MsgPlaced
    /\ saveCalls' = IF historyEnabled /\ saveCalls < MaxSaves THEN saveCalls + 1 ELSE saveCalls
    /\ UNCHANGED <<apiKey, llmLoaded, historyEnabled, promptInput, promptText, pcPrompt,
                   requested, rendered, saved, configBefore, result>>
    /\ UNCHANGED exceptPrompt

\* the window resize listener: redrawActiveConfig
RedrawActive ==
    /\ runWithConfig(AsRaw(activeConfig), activeSourceLabel, FALSE)
    /\ statusText' = MsgPlaced
    /\ UNCHANGED <<apiKey, llmLoaded, historyEnabled, promptInput, promptText, pcPrompt,
                   requested, rendered, saved, configBefore, saveCalls, result>>
    /\ UNCHANGED exceptPrompt

\* a View button: loadHistoryEntry of an entry of artHistory
ViewEntry ==
    /\ historyEnabled
    /\ \E config \in ResultConfigs : runWithConfig(EntryConfig(config), "history", TRUE)
    /\ promptInput' \in EntryPrompts
    /\ statusText' = MsgLoaded
    /\ UNCHANGED <<apiKey, llmLoaded, historyEnabled, promptText, pcPrompt,
                   requested, rendered, saved, configBefore, saveCalls, result>>
    /\ UNCHANGED exceptPrompt

\* the loaded page, config.js having set no key or a one-letter key
InitPage ==
    /\ InitPrompt
    /\ apiKey \in { [kind |-> "undefined"], [kind |-> "string", text |-> << "a" >>] }

NextPage == NextPrompt \/ RedrawActive \/ ViewEntry

SpecPage == InitPage /\ [][NextPage]_vars

\* the key is missing, empty or whitespace-only
KeyUnusable ==
    \/ apiKey.kind # "string"
    \/ \A i \in 1 .. Len(apiKey.text) : apiKey.text[i] = " "

\* the latest submission sent nothing, redrew nothing, saved nothing and left
\* activeConfig as it was
NothingDone ==
    /\ ~requested /\ ~rendered /\ ~saved
    /\ activeConfig = configBefore

\* C16 as stated: without a usable key every prompt submission does nothing and
\* ends with the message asking to set OPENAI_API_KEY.
C16_Refusal ==
    (pcPrompt = "returned" /\ KeyUnusable) => (NothingDone /\ statusText = MsgSetKey)

\* C16 amended: without a usable key a submission never leaves the handler
\* pending and does nothing; it ends with the message asking to set
\* OPENAI_API_KEY when the prompt is not blank and the language-model module is
\* loaded, with the message asking for a prompt when the prompt is blank, and
\* with the module message otherwise.
C16_RefusalAmended ==
    KeyUnusable =>
        /\ pcPrompt \in {"ready", "returned"}
        /\ pcPrompt = "returned" =>
             /\ NothingDone
             /\ statusText = IF promptText = << >> THEN MsgEnterPrompt
                             ELSE IF ~llmLoaded THEN MsgNoLLM
                             ELSE MsgSetKey

\* a non-blank prompt was submitted with a whitespace-only key and was refused
C16_Witness ==
    /\ pcPrompt = "returned"
    /\ apiKey.kind = "string" /\ Len(apiKey.text) > 0 /\ KeyUnusable
    /\ llmLoaded
    /\ promptText # << >>
    /\ statusText = MsgSetKey
    /\ NothingDone

---------------------------------------------------------------------------
(* The history server (server.js).  A row is its id and created_at; now()  *)
(* need not advance between two inserts, so rows can tie on created_at.    *)

\* process.env.HISTORY_LIMIT: unset or a numeric string
LimitEnvs ==
    { [kind |-> "undefined"] } \cup { RawString(TRUE, 2 * n) : n \in 0 .. MaxLimit }

\* Number(process.env.HISTORY_LIMIT) || 10
HISTORY_LIMIT ==
    LET num == ToNumber(historyLimitEnv)
    IN IF num.finite /\ num.n2 # 0 THEN num.n2 \div 2 ELSE 10

RECURSIVE OrderByCreatedAtDesc(_)
\* the orders ORDER BY created_at DESC can give the rows rs: a newest row, then
\* the others in such an order
OrderByCreatedAtDesc(rs) ==
    IF rs = {} THEN { << >> }
    ELSE UNION { { << r >> \o s : s \in OrderByCreatedAtDesc(rs \ {r}) } :
                   r \in { r \in rs : \A q \in rs : r.createdAt >= q.createdAt } }

\* the orders ORDER BY created_at ASC can give the rows rs
OrderByCreatedAtAsc(rs) ==
    { s \in [1 .. Cardinality(rs) -> rs] :
        /\ \A i, j \in 1 .. Cardinality(rs) : i # j => s[i] # s[j]
        /\ \A i, j \in 1 .. Cardinality(rs) : i < j => s[i].createdAt <= s[j].createdAt }

\* the query with ascending order
selectHistory_Ascending(rs, limit) ==
    { SubSeq(s, 1, Min(limit, Len(s))) : s \in OrderByCreatedAtAsc(rs) }

\* the query without LIMIT
selectHistory_NoLimit(rs, limit) == OrderByCreatedAtDesc(rs)

\* SELECT ... FROM art_history ORDER BY created_at DESC LIMIT limit
selectHistory(rs, limit) ==
    { SubSeq(s, 1, Min(limit, Len(s))) : s \in OrderByCreatedAtDesc(rs) }

\* the kinds of value a parsed request body and its fields can hold
ValidBody ==
    [kind |-> "object", prompt |-> "string", resultType |-> "string", config |-> "object",
     rectangles |-> "array", canvasWidth |-> "number", canvasHeight |-> "number"]

\* a body that is not an object with fields: none parsed, or a JSON array
FieldlessBody(kind) ==
    [kind |-> kind, prompt |-> "undefined", resultType |-> "undefined",
     config |-> "undefined", rectangles |-> "undefined", canvasWidth |-> "undefined",
     canvasHeight |-> "undefined"]

\* field / kind pairs: one for every check of validateHistoryPayload, and an
\* array as config, which is an object
FieldKinds ==
    { <<"prompt", "undefined">>, <<"prompt", "number">>, <<"resultType", "undefined">>,
      <<"config", "null">>, <<"config", "array">>,
      <<"rectangles", "object">>,
      <<"canvasWidth", "string">>,
      <<"canvasHeight", "undefined">> }

\* the valid body, the bodies without fields, and the valid body with one or
\* two fields replaced
Bodies ==
    { ValidBody, FieldlessBody("undefined"), FieldlessBody("array") }
        \cup { [ValidBody EXCEPT ![fk[1]] = fk[2]] : fk \in FieldKinds }
        \cup { [ValidBody EXCEPT !["rectangles"] = "object", ![fk[1]] = fk[2]] :
                 fk \in { p \in FieldKinds : p[1] = "canvasHeight" } }

NoError == ""

\* validateHistoryPayload without the rectangles check
validateHistoryPayload_NoRectangles(payload) ==
    IF payload.kind = "undefined" THEN "Body must be a JSON object."
    ELSE IF payload.prompt # "string" THEN "prompt must be a string."
    ELSE IF payload.resultType # "string" THEN "resultType must be a string."
    ELSE IF payload.config \notin {"object", "array"} THEN "config must be an object."
    ELSE IF payload.canvasWidth # "number" THEN "canvasWidth must be numeric."
    ELSE IF payload.canvasHeight # "number" THEN "canvasHeight must be numeric."
    ELSE NoError

\* validateHistoryPayload: the first failing check gives the message (the source
\* writes the field name between backquotes); typeof is "object" for arrays, and
\* a number that arrives in JSON is finite
validateHistoryPayload(payload) ==
    IF payload.kind = "undefined" THEN "Body must be a JSON object."
    ELSE IF payload.prompt # "string" THEN "prompt must be a string."
    ELSE IF payload.resultType # "string" THEN "resultType must be a string."
    ELSE IF payload.config \notin {"object", "array"} THEN "config must be an object."
    ELSE IF payload.rectangles # "array" THEN "rectangles must be an array."
    ELSE IF payload.canvasWidth # "number" THEN "canvasWidth must be numeric."
    ELSE IF payload.canvasHeight # "number" THEN "canvasHeight must be numeric."
    ELSE NoError

InitServer ==
    /\ historyLimitEnv \in LimitEnvs
    /\ art_history = {}
    /\ dbClock = 0
    /\ httpStatus = 0
    /\ items = << >>
    /\ reqBody = [kind |-> "undefined"]
    /\ errorBody = ""
    /\ GeomIdle
    /\ ConfigIdle /\ ColorIdle /\ PromptIdle /\ ReplayIdle /\ ClientIdle

\* time passes in the database
Tick ==
    /\ dbClock < MaxClock
    /\ dbClock' = dbClock + 1
    /\ UNCHANGED <<historyLimitEnv, art_history, httpStatus, items, reqBody, errorBody>>
    /\ UNCHANGED exceptServer

\* POST /api/history with a body validateHistoryPayload accepts: one row inserted
\* with a fresh id and created_at = now()
saveHistory ==
    /\ Cardinality(art_history) < MaxRows
    /\ \E body \in Bodies :
         /\ validateHistoryPayload(body) = NoError
         /\ reqBody' = body
    /\ art_history' = art_history \cup
          { [id |-> Cardinality(art_history) + 1, createdAt |-> dbClock] }
    /\ httpStatus' = 201
    /\ errorBody' = NoError
    /\ UNCHANGED <<historyLimitEnv, dbClock, items>>
    /\ UNCHANGED exceptServer

\* POST /api/history with a body validateHistoryPayload rejects
saveHistoryRejected ==
    /\ \E body \in Bodies :
         /\ validateHistoryPayload(body) # NoError
         /\ reqBody' = body
         /\ errorBody' = validateHistoryPayload(body)
    /\ httpStatus' = 400
    /\ UNCHANGED <<historyLimitEnv, art_history, dbClock, items>>
    /\ UNCHANGED exceptServer

\* POST /api/history with an accepted body whose INSERT fails
saveHistoryFailed ==
    /\ \E body \in Bodies :
         /\ validateHistoryPayload(body) = NoError
         /\ reqBody' = body
    /\ httpStatus' = 500
    /\ errorBody' = "Failed to save history."
    /\ UNCHANGED <<historyLimitEnv, art_history, dbClock, items>>
    /\ UNCHANGED exceptServer

\* GET /api/history
fetchHistory ==
    /\ items' \in selectHistory(art_history, HISTORY_LIMIT)
    /\ httpStatus' = 200
    /\ errorBody' = NoError
    /\ UNCHANGED <<historyLimitEnv, art_history, dbClock, reqBody>>
    /\ UNCHANGED exceptServer

NextServer == Tick \/ saveHistory \/ saveHistoryRejected \/ saveHistoryFailed \/ fetchHistory

SpecServer == InitServer /\ [][NextServer]_vars

\* the rows listed in the response
Listed == { items[i] : i \in 1 .. Len(items) }

\* C17: a GET response holds at most HISTORY_LIMIT entries (all of them when
\* fewer are stored), each a stored row listed once, newest first, and no
\* stored row left out is newer than a listed one.
C17_HistoryListing ==
    httpStatus = 200 =>
        /\ Len(items) <= HISTORY_LIMIT
        /\ Len(items) = Min(HISTORY_LIMIT, Cardinality(art_history))
        /\ Listed \subseteq art_history
        /\ Cardinality(Listed) = Len(items)
        /\ \A i, j \in 1 .. Len(items) : i < j => items[i].createdAt >= items[j].createdAt
        /\ \A r \in art_history \ Listed : \A l \in Listed : r.createdAt <= l.createdAt

\* more rows are stored than the limit allows; the response lists the two
\* newest, created at different times, and leaves an older one out
C17_Witness ==
    /\ httpStatus = 200
    /\ Cardinality(art_history) > HISTORY_LIMIT
    /\ Len(items) = 2
    /\ items[1].createdAt > items[2].createdAt
    /\ \E r \in art_history \ Listed : r.createdAt < items[2].createdAt

---------------------------------------------------------------------------
(* Saving a run and replaying it.  A rectangle is an object whose fields    *)
(* are tagged values, numbers in half units as for sanitizeConfig; the list *)
(* travels as JSON text, a number being written as sign, decimal digits of  *)
(* the integer part and fraction digits.                                    *)

RECURSIVE digitsOf(_)
\* the decimal digits of the natural number n, most significant first
digitsOf(n) == IF n < 10 THEN << n >> ELSE Append(digitsOf(n \div 10), n % 10)

RECURSIVE valueOf(_)
\* the natural number written by the digits ds
valueOf(ds) ==
    IF ds = << >> THEN 0 ELSE 10 * valueOf(SubSeq(ds, 1, Len(ds) - 1)) + ds[Len(ds)]

\* JSON.stringify of one field value: a finite number as its decimal text,
\* NaN and Infinity as null
stringifyValue(v) ==
    IF v.kind = "number"
    THEN LET abs == IF v.n2 < 0 THEN -v.n2 ELSE v.n2
         IN [t |-> "number", neg |-> v.n2 < 0, int |-> digitsOf(abs \div 2),
             frac |-> IF abs % 2 = 1 THEN << 5 >> ELSE << >>]
    ELSE [t |-> "null"]

\* JSON.parse of one field value
parseValue(j) ==
    IF j.t = "number"
    THEN LET abs == 2 * valueOf(j.int) + (IF j.frac = << 5 >> THEN 1 ELSE 0)
         IN RawNumber(IF j.neg THEN -abs ELSE abs)
    ELSE [kind |-> "null"]

\* JSON.stringify of a list of rectangles
stringify(rs) ==
    [i \in 1 .. Len(rs) |->
        [x |-> stringifyValue(rs[i].x), y |-> stringifyValue(rs[i].y),
         w |-> stringifyValue(rs[i].w), h |-> stringifyValue(rs[i].h)]]

\* JSON.parse of a list of rectangles
parse(text) ==
    [i \in 1 .. Len(text) |->
        [x |-> parseValue(text[i].x), y |-> parseValue(text[i].y),
         w |-> parseValue(text[i].w), h |-> parseValue(text[i].h)]]

\* the { x, y, w, h } pushed for rect, its fields converted by Number()
cleanedRect(rect) ==
    [x |-> RawNumber(ToNumber(rect.x).n2), y |-> RawNumber(ToNumber(rect.y).n2),
     w |-> RawNumber(ToNumber(rect.w).n2), h |-> RawNumber(ToNumber(rect.h).n2)]

\* all four fields are finite after Number()
finiteRect(rect) ==
    /\ ToNumber(rect.x).finite /\ ToNumber(rect.y).finite
    /\ ToNumber(rect.w).finite /\ ToNumber(rect.h).finite

RECURSIVE sanitizeRectangles_DropZero(_)
\* a sanitizeRectangles that tests the fields for truthiness
sanitizeRectangles_DropZero(rectangles) ==
    IF rectangles = << >> THEN << >>
    ELSE LET rect == Head(rectangles)
             rest == sanitizeRectangles_DropZero(Tail(rectangles))
         IN IF finiteRect(rect) /\ ToNumber(rect.x).n2 # 0 /\ ToNumber(rect.y).n2 # 0
            THEN << cleanedRect(rect) >> \o rest
            ELSE rest

RECURSIVE sanitizeRectangles(_)
\* sanitizeRectangles of rects.js and of historyClient.js (the same code)
sanitizeRectangles(rectangles) ==
    IF rectangles = << >> THEN << >>
    ELSE LET rect == Head(rectangles)
             rest == sanitizeRectangles(Tail(rectangles))
         IN IF finiteRect(rect) THEN << cleanedRect(rect) >> \o rest ELSE rest

\* rectangles generateRectangles can return, with x also at 10.5 as on a
\* canvas of fractional width
ReplayRects ==
    { [x |-> RawNumber(x2), y |-> RawNumber(2 * 7), w |-> RawNumber(2 * w),
       h |-> RawNumber(2 * h)] : x2 \in {0, 21, 210}, w \in {1, 12}, h \in {1, 50} }

ReplayLists == UNION { [1 .. n -> ReplayRects] : n \in 0 .. MaxList }

\* a prompt run has drawn savedRender
InitReplay ==
    /\ savedRender \in ReplayLists
    /\ wire = << >>
    /\ storedRow = << >>
    /\ entryRects = << >>
    /\ loadRender = << >>
    /\ loadGenCalls = 0
    /\ pcReplay = "rendered"
    /\ GeomIdle
    /\ ConfigIdle /\ ColorIdle /\ PromptIdle /\ ServerIdle /\ ClientIdle

\* persistPromptResult: renderDetails.rects = sanitizeRectangles(rects), then
\* buildHistoryPayload and JSON.stringify
PostEntry ==
    /\ pcReplay = "rendered"
    /\ wire' = stringify(sanitizeRectangles(sanitizeRectangles(savedRender)))
    /\ pcReplay' = "posted"
    /\ UNCHANGED <<savedRender, storedRow, entryRects, loadRender, loadGenCalls>>
    /\ UNCHANGED exceptReplay

\* the server parses the body, stores JSON.stringify(rectangles) as jsonb and
\* answers with the stored row
StoreEntry ==
    /\ pcReplay = "posted"
    /\ storedRow' = parse(stringify(parse(wire)))
    /\ wire' = stringify(storedRow')
    /\ pcReplay' = "saved"
    /\ UNCHANGED <<savedRender, entryRects, loadRender, loadGenCalls>>
    /\ UNCHANGED exceptReplay

\* persistHistory returns sanitizeHistoryEntry(data.item), which is put in artHistory
ReceiveEntry ==
    /\ pcReplay = "saved"
    /\ entryRects' = sanitizeRectangles(parse(wire))
    /\ pcReplay' = "inHistory"
    /\ UNCHANGED <<savedRender, wire, storedRow, loadRender, loadGenCalls>>
    /\ UNCHANGED exceptReplay

\* the page is loaded again: initializeHistory fetches the stored entry
ReloadPage ==
    /\ pcReplay = "loaded"
    /\ wire' = stringify(storedRow)
    /\ entryRects' = sanitizeRectangles(parse(wire'))
    /\ loadRender' = << >>
    /\ loadGenCalls' = 0
    /\ pcReplay' = "inHistory"
    /\ UNCHANGED <<savedRender, storedRow>>
    /\ UNCHANGED exceptReplay

\* a loadHistoryEntry that calls runWithConfig without options.rectangles
loadHistoryEntry_Regenerate ==
    /\ pcReplay = "inHistory"
    /\ loadRender' \in ReplayLists
    /\ loadGenCalls' = 1
    /\ pcReplay' = "loaded"
    /\ UNCHANGED <<savedRender, wire, storedRow, entryRects>>
    /\ UNCHANGED exceptReplay

\* loadHistoryEntry: runWithConfig with options.rectangles = entry.rectangles
\* draws sanitizeRectangles(options.rectangles)
loadHistoryEntry ==
    /\ pcReplay = "inHistory"
    /\ loadRender' = sanitizeRectangles(entryRects)
    /\ loadGenCalls' = 0
    /\ pcReplay' = "loaded"
    /\ UNCHANGED <<savedRender, wire, storedRow, entryRects>>
    /\ UNCHANGED exceptReplay

NextReplay == PostEntry \/ StoreEntry \/ ReceiveEntry \/ ReloadPage \/ loadHistoryEntry

SpecReplay == InitReplay /\ [][NextReplay]_vars

\* C18: a loaded entry draws the list drawn when it was saved, field by field
\* and in the same order, without a generateRectangles call; and
\* sanitizeRectangles, once or twice, leaves that list unchanged.
C18_ReplayRoundTrip ==
    /\ pcReplay = "loaded" =>
         /\ Len(loadRender) = Len(savedRender)
         /\ \A i \in 1 .. Len(savedRender) :
              /\ loadRender[i].x = savedRender[i].x /\ loadRender[i].y = savedRender[i].y
              /\ loadRender[i].w = savedRender[i].w /\ loadRender[i].h = savedRender[i].h
         /\ loadGenCalls = 0
    /\ pcReplay # "idle" =>
         /\ sanitizeRectangles(savedRender) = savedRender
         /\ sanitizeRectangles(sanitizeRectangles(savedRender)) = savedRender

\* two different rectangles, one at x = 0 and one at x = 10.5, were saved and loaded
C18_Witness ==
    /\ pcReplay = "loaded"
    /\ Len(savedRender) = 2
    /\ savedRender[1].x = RawNumber(0)
    /\ savedRender[2].x = RawNumber(21)
    /\ savedRender[2].w = RawNumber(24)
    /\ loadRender = savedRender

---------------------------------------------------------------------------
(* Further properties of generateRectangles and isValidPlacement *)

\* C21: every step of generateRectangles either leaves rects as it is or adds
\* one rectangle at the end, leaving the earlier entries in place; a step that
\* leaves rects unchanged changes, besides the position, only the attempt
\* counter (and the count of random draws), by one.
C21_AppendOnly ==
    [][/\ \/ rects' = rects
          \/ /\ Len(rects') = Len(rects) + 1
             /\ \A i \in 1 .. Len(rects) : rects'[i] = rects[i]
       /\ attempts' \in {attempts, attempts + 1}
       /\ rects' # rects => attempts' = attempts + 1
       /\ <<width, height, targetCount, minSize, maxSize>>'
            = <<width, height, targetCount, minSize, maxSize>>]_vars

\* a run with two placements and one rejected candidate
C21_Witness ==
    /\ pc = "done"
    /\ Len(rects) = 2
    /\ rects[1] # rects[2]
    /\ attempts = 3

\* the pair (c, r) gets as far as the distance tests, passes dist < gap and is
\* rejected by touchOrOverlap && dist === 0
OnlyTouchTestRejects(c, r) ==
    /\ ~rectsIntersectStrict(c, r)
    /\ ~rectContains(r, c) /\ ~rectContains(c, r)
    /\ ~(minEdgeDistanceSq(c, r) < GAP * GAP)
    /\ rectsTouchOrOverlap(c, r) /\ minEdgeDistanceSq(c, r) = 0

\* C22 as stated: among the pairs isValidPlacement is called on, some candidate /
\* existing pair passes the dist < gap test and is rejected only by the touch test.
C22_TouchTestNeeded ==
    returned => \E c \in PairRects, r \in PairRects : OnlyTouchTestRejects(c, r)

\* the verdict of the loop body without its touch test
VerdictWithoutTouchTest(c, r) ==
    /\ AreasDisjoint(c, r)
    /\ IF Inside(r, c) THEN MarginOK(r, c)
       ELSE IF Inside(c, r) THEN MarginOK(c, r)
       ELSE SepX(c, r) * SepX(c, r) + SepY(c, r) * SepY(c, r) >= GAP * GAP

\* C22 amended: no pair is rejected by the touch test alone; the verdict of
\* isValidPlacement is the verdict without the touch test, and every pair whose
\* borders touch is rejected (by dist < gap, since its distance is 0 < GAP).
C22_TouchTestRedundant ==
    returned =>
        /\ ~OnlyTouchTestRejects(candidate, others[1])
        /\ valid = VerdictWithoutTouchTest(candidate, others[1])
        /\ (SepX(candidate, others[1]) = 0 /\ SepY(candidate, others[1]) = 0) => ~valid

\* a candidate sharing part of an edge with the existing rectangle was rejected
C22_Witness ==
    /\ returned /\ ~valid
    /\ candidate.x + candidate.w = others[1].x
    /\ candidate.y < others[1].y + others[1].h
    /\ others[1].y < candidate.y + candidate.h
    /\ rectsTouchOrOverlap(candidate, others[1])
    /\ minEdgeDistanceSq(candidate, others[1]) = 0

C27_PairSymmetry ==
    returned => (valid <=> isValidPlacement(others[1], << candidate >>, GAP))

\* an accepted candidate to the right of and below the existing rectangle, of
\* a different size
C27_Witness ==
    /\ returned /\ valid
    /\ candidate.x > others[1].x + others[1].w
    /\ candidate.y > others[1].y + others[1].h
    /\ candidate.w # others[1].w

---------------------------------------------------------------------------
(* Further properties of the history server *)

\* the body is an object whose prompt and resultType are strings, config an
\* object, rectangles an array and canvasWidth and canvasHeight finite numbers
PayloadPasses(body) ==
    /\ body.kind \in {"object", "array"}
    /\ body.prompt = "string" /\ body.resultType = "string"
    /\ body.config \in {"object", "array"}
    /\ body.rectangles = "array"
    /\ body.canvasWidth = "number" /\ body.canvasHeight = "number"

\* C25: a POST whose body fails a check is answered 400 with a message and
\* leaves the table as it is; a row is added only by a POST whose body passes
\* every check, one row, answered 201.
C25_RejectedSaves ==
    /\ [](/\ httpStatus = 400 => (~PayloadPasses(reqBody) /\ errorBody # NoError)
          /\ httpStatus \in {201, 500} => PayloadPasses(reqBody)
          /\ httpStatus = 201 => errorBody = NoError)
    /\ [][/\ (httpStatus' = 400 \/ ~PayloadPasses(reqBody')) => art_history' = art_history
          /\ art_history' # art_history =>
               /\ httpStatus' = 201
               /\ PayloadPasses(reqBody')
               /\ art_history \subseteq art_history'
               /\ Cardinality(art_history') = Cardinality(art_history) + 1]_vars

\* a body whose rectangles field is not an array was rejected after a row had
\* been stored, and the row is still the only one
C25_Witness ==
    /\ httpStatus = 400
    /\ reqBody.kind = "object" /\ reqBody.rectangles = "object"
    /\ reqBody.prompt = "string" /\ reqBody.canvasHeight = "number"
    /\ errorBody = "rectangles must be an array."
    /\ Cardinality(art_history) = 1

---------------------------------------------------------------------------
(* Further properties of handlePromptRun and the page *)

\* the language-model call failed, or gave an unknown result type, or an art
\* plan lacking rectangles or colorZones
ResultFails(r) ==
    \/ r.type = "error"
    \/ r.type \notin {"rectangles", "art_plan"}
    \/ r.type = "art_plan" /\ (~r.config.hasRectangles \/ ~r.config.hasColorZones)

\* the step in which a pending handlePromptRun gets the model's answer
AnswerStep == pcPrompt = "awaitLLM" /\ result = NoResult /\ result' # NoResult

\* C23: when the model's answer is a failure, an unknown result type or an art
\* plan lacking rectangles or colorZones, the handler ends with an Error: status,
\* activeConfig and activeSourceLabel stay as they are, nothing is drawn and no
\* history entry is saved.
C23_FailedRun ==
    [][(AnswerStep /\ ResultFails(result')) =>
          /\ pcPrompt' = "returned"
          /\ statusText' = IF result'.type = "error" THEN MsgError
                           ELSE IF result'.type = "art_plan" THEN MsgInvalidPlan
                           ELSE MsgUnknownType
          /\ activeConfig' = activeConfig
          /\ activeSourceLabel' = activeSourceLabel
          /\ genCall' = genCall
          /\ ~rendered' /\ ~saved'
          /\ saveCalls' = saveCalls]_vars

\* after an earlier run was saved and an entry was viewed, an art plan with
\* rectangles and without colorZones arrived and was refused
C23_Witness ==
    /\ pcPrompt = "returned"
    /\ result.type = "art_plan"
    /\ result.config.hasRectangles /\ ~result.config.hasColorZones
    /\ statusText = MsgInvalidPlan
    /\ activeSourceLabel = "history"
    /\ historyEnabled /\ saveCalls = 1
    /\ ~rendered /\ ~saved

\* C24: a save is issued only in the step in which a prompt run has rendered the
\* model's answer, once in that run; the page starts without any save, and
\* resize redraws and history loads issue none.
C24_SaveOnlyNewResults ==
    /\ saveCalls = 0
    /\ [][saveCalls' # saveCalls =>
            /\ AnswerStep /\ ~ResultFails(result')
            /\ pcPrompt' = "awaitSave"
            /\ rendered' /\ ~saved /\ saved'
            /\ activeSourceLabel' \in {"rectangles", "art plan"}
            /\ saveCalls' = saveCalls + 1]_vars

\* two prompt runs have each issued their save, a resize and a history load
\* having happened in between
C24_Witness ==
    /\ saveCalls = 2
    /\ pcPrompt = "awaitSave" /\ rendered /\ saved
    /\ result.type = "art_plan"
    /\ activeSourceLabel = "art plan"

---------------------------------------------------------------------------
(* The page and its history server together.  The GET of initializeHistory *)
(* and the requests of every handlePromptRun are under way at once; each   *)
(* is sent, served and received in separate steps, in any order.  A row    *)
(* and a history entry are an id and a creation time; the database clock   *)
(* advances with every insert.                                             *)

HISTORY_LIMIT_Client == 10

NoItem == [id |-> 0, createdAt |-> 0]

\* the rows stored when the page loads
StoredRows(n) == { [id |-> i, createdAt |-> i] : i \in 1 .. n }

\* historyClient.sanitizeHistoryEntry, for a row whose id is a string
sanitizeHistoryEntry(entry) == [id |-> entry.id, createdAt |-> entry.createdAt]

\* the configuration the language model answers the k-th prompt with
PromptConfig(k) ==
    [isObject |-> TRUE, count |-> RawNumber(2 * (600 + k)),
     minSize |-> RawNumber(2 * 10), maxSize |-> RawNumber(2 * 20)]

\* the prompt variables the combined page does not use
promptRest ==
    <<apiKey, llmLoaded, historyEnabled, promptInput, promptText, pcPrompt,
      requested, rendered, saved, configBefore, result>>

\* the server variables no request of the page changes
serverRest == <<historyLimitEnv, httpStatus, items, reqBody, errorBody>>

\* the page has loaded with a key and a history server: initializeHistory has
\* sent its GET and the default configuration is drawn
InitClient ==
    /\ historyLimitEnv \in
         { [kind |-> "undefined"], RawString(TRUE, 2 * (HISTORY_LIMIT_Client + MaxOver)) }
    /\ \E n \in {0, 1, HISTORY_LIMIT_Client + MaxOver} :
         art_history = StoredRows(n) /\ dbClock = n
    /\ httpStatus = 0 /\ items = << >>
    /\ reqBody = [kind |-> "undefined"] /\ errorBody = ""
    /\ artHistory = << >>
    /\ historyLoadError = ""
    /\ historyFetch = [pc |-> "sent", items |-> << >>]
    /\ promptRuns = << >>
    /\ apiKey = [kind |-> "string", text |-> << "a" >>]
    /\ llmLoaded = TRUE /\ historyEnabled = TRUE
    /\ promptInput = << "a" >> /\ promptText = << >>
    /\ statusText = MsgPlaced
    /\ pcPrompt = "ready"
    /\ requested = FALSE /\ rendered = FALSE /\ saved = FALSE
    /\ saveCalls = 0 /\ result = NoResult
    /\ activeConfig = sanitizeConfig(AsRaw(DEFAULT_CONFIG))
    /\ configBefore = activeConfig
    /\ activeSourceLabel = "defaults"
    /\ genCall = [called |-> TRUE, count |-> activeConfig.count,
                  minSize |-> activeConfig.minSize, maxSize |-> activeConfig.maxSize]
    /\ GeomIdle /\ ColorIdle /\ ReplayIdle

\* the server answers the GET of initializeHistory
ServeFetch ==
    /\ historyFetch.pc = "sent"
    /\ \E rows \in selectHistory(art_history, HISTORY_LIMIT) :
         historyFetch' = [pc |-> "served", items |-> rows]
    /\ UNCHANGED <<artHistory, historyLoadError, promptRuns>>
    /\ UNCHANGED <<cfgVars, promptVars, serverVars, exceptClient>>

\* initializeHistory after its await: artHistory = items
ReceiveFetch ==
    /\ historyFetch.pc = "served"
    /\ artHistory' = [i \in 1 .. Len(historyFetch.items) |->
                        sanitizeHistoryEntry(historyFetch.items[i])]
    /\ historyLoadError' = ""
    /\ historyFetch' = [pc |-> "done", items |-> << >>]
    /\ UNCHANGED promptRuns
    /\ UNCHANGED <<cfgVars, promptVars, serverVars, exceptClient>>

\* the GET fails: the catch block of initializeHistory
FailFetch ==
    /\ historyFetch.pc \in {"sent", "served"}
    /\ historyLoadError' = "Failed to load history."
    /\ historyFetch' = [pc |-> "done", items |-> << >>]
    /\ UNCHANGED <<artHistory, promptRuns>>
    /\ UNCHANGED <<cfgVars, promptVars, serverVars, exceptClient>>

\* Enter in the prompt box: handlePromptRun up to its await of processPrompt
SubmitPrompt ==
    /\ Len(promptRuns) < MaxRuns
    /\ promptRuns' = Append(promptRuns, [pc |-> "awaitLLM", item |-> NoItem])
    /\ statusText' = MsgConcept
    /\ UNCHANGED <<artHistory, historyLoadError, historyFetch, saveCalls>>
    /\ UNCHANGED <<cfgVars, promptRest, serverVars, exceptClient>>

\* the answer to the k-th prompt arrives: runWithConfig, then persistPromptResult
\* up to its await of persistHistory
RenderAnswer ==
    /\ \E k \in 1 .. Len(promptRuns) :
         /\ promptRuns[k].pc = "awaitLLM"
         /\ runWithConfig(PromptConfig(k), "rectangles", FALSE)
         /\ promptRuns' = [promptRuns EXCEPT ![k].pc = "awaitSave"]
    /\ statusText' = MsgPlaced
    /\ saveCalls' = saveCalls + 1
    /\ UNCHANGED <<artHistory, historyLoadError, historyFetch>>
    /\ UNCHANGED <<promptRest, serverVars, exceptClient>>

\* the call of the language model for the k-th prompt fails
FailAnswer ==
    /\ \E k \in 1 .. Len(promptRuns) :
         /\ promptRuns[k].pc = "awaitLLM"
         /\ promptRuns' = [promptRuns EXCEPT ![k].pc = "failed"]
    /\ statusText' = MsgError
    /\ UNCHANGED <<artHistory, historyLoadError, historyFetch, saveCalls>>
    /\ UNCHANGED <<cfgVars, promptRest, serverVars, exceptClient>>

\* the server inserts the row of a POST and answers 201 with it
StoreSave ==
    /\ \E k \in 1 .. Len(promptRuns) :
         /\ promptRuns[k].pc = "awaitSave"
         /\ LET row == [id |-> Cardinality(art_history) + 1, createdAt |-> dbClock + 1]
            IN /\ art_history' = art_history \cup {row}
               /\ promptRuns' = [promptRuns EXCEPT ![k] = [pc |-> "saved", item |-> row]]
    /\ dbClock' = dbClock + 1
    /\ UNCHANGED <<artHistory, historyLoadError, historyFetch>>
    /\ UNCHANGED <<cfgVars, promptVars, serverRest, exceptClient>>

\* a POST is not stored: the request fails or the server answers an error
RefuseSave ==
    /\ \E k \in 1 .. Len(promptRuns) :
         /\ promptRuns[k].pc = "awaitSave"
         /\ promptRuns' = [promptRuns EXCEPT ![k].pc = "unsaved"]
    /\ UNCHANGED <<artHistory, historyLoadError, historyFetch>>
    /\ UNCHANGED <<cfgVars, promptVars, serverVars, exceptClient>>

\* persistPromptResult after its await: unshift the saved entry, keep the
\* first HISTORY_LIMIT entries
ReceiveSave ==
    /\ \E k \in 1 .. Len(promptRuns) :
         /\ promptRuns[k].pc = "saved"
         /\ LET longer == << sanitizeHistoryEntry(promptRuns[k].item) >> \o artHistory
            IN artHistory' = IF Len(longer) > HISTORY_LIMIT_Client
                             THEN SubSeq(longer, 1, HISTORY_LIMIT_Client)
                             ELSE longer
         /\ promptRuns' = [promptRuns EXCEPT ![k].pc = "done"]
    /\ historyLoadError' = ""
    /\ UNCHANGED historyFetch
    /\ UNCHANGED <<cfgVars, promptVars, serverVars, exceptClient>>

\* persistPromptResult's catch block
ReceiveSaveError ==
    /\ \E k \in 1 .. Len(promptRuns) :
         /\ promptRuns[k].pc = "unsaved"
         /\ promptRuns' = [promptRuns EXCEPT ![k].pc = "saveFailed"]
    /\ historyLoadError' = "Unable to save history right now."
    /\ UNCHANGED <<artHistory, historyFetch>>
    /\ UNCHANGED <<cfgVars, promptVars, serverVars, exceptClient>>

NextClient ==
    \/ ServeFetch \/ ReceiveFetch \/ FailFetch
    \/ SubmitPrompt \/ RenderAnswer \/ FailAnswer
    \/ StoreSave \/ RefuseSave \/ ReceiveSave \/ ReceiveSaveError

SpecClient == InitClient /\ [][NextClient]_vars

\* the entries of the client's list
InArtHistory == { artHistory[i] : i \in 1 .. Len(artHistory) }

\* C28 as stated: an entry that persistPromptResult has put into artHistory is
\* in artHistory ever after, whenever the initial fetch completes.
C28_SavedEntryKept ==
    \A k \in 1 .. Len(promptRuns) :
        promptRuns[k].pc = "done" => promptRuns[k].item \in InArtHistory

\* the k-th prompt was answered and drawn
Drawn(k) == promptRuns[k].pc \in {"awaitSave", "saved", "unsaved", "done", "saveFailed"}

\* C29 as stated: once every submitted prompt has been answered and drawn, the
\* active configuration and the rectangles drawn are those of the prompt
\* submitted last.
C29_LatestPromptWins ==
    (promptRuns # << >> /\ \A k \in 1 .. Len(promptRuns) : Drawn(k)) =>
        /\ activeConfig = sanitizeConfig(PromptConfig(Len(promptRuns)))
        /\ genCall.count = activeConfig.count

\* C30 as stated: artHistory never holds more than HISTORY_LIMIT (10) entries and
\* lists them newest first.
C30_ListCapped ==
    /\ Len(artHistory) <= HISTORY_LIMIT_Client
    /\ \A i, j \in 1 .. Len(artHistory) :
         i < j => artHistory[i].createdAt >= artHistory[j].createdAt

====
